---- MODULE Spec2Model ----
(***************************************************************************)
(* Execution Discipline Agent: the rule checks (src/src/rules.py), the     *)
(* history store (src/src/memory.py) and the orchestrator                  *)
(* (src/src/agent.py).                                                     *)
(*                                                                         *)
(* Numbers.  Prices are integers counted in units of 0.00005 (so that      *)
(* 0.0001 is 2 units and 0.01 is 200 units); compliance scores and rates   *)
(* are integers counted in hundredths (round(x, 2) * 100).  Share counts,  *)
(* account sizes and limit percentages are plain integers.  A missing      *)
(* number (NaN / None) is NA.  Regime labels and dictionary keys are       *)
(* sequences of characters, so that str.startswith is a prefix test.       *)
(* The detail text of a violation is a rendering of the same row and is    *)
(* not carried.                                                            *)
(***************************************************************************)
EXTENDS Integers, Sequences, FiniteSets, TLC

VARIABLES
    store,          \* path -> content of the file at that path
    DEFAULT_STATE,  \* the list object bound to memory.DEFAULT_STATE["history"]
    agent,          \* orchestrator instances: status, memory_path, memory
    calls_left,     \* run() calls the behaviour may still make
    result,         \* what the last constructor or run() call did
    trades,         \* pure-function specifications: the trade table
    plan,           \* pure-function specifications: the plan
    regime_label,   \* pure-function specifications: the regime label
    out             \* pure-function specifications: the value returned

vars == <<store, DEFAULT_STATE, agent, calls_left, result, trades, plan, regime_label, out>>

orchVars == <<store, DEFAULT_STATE, agent, calls_left, result>>
pureVars == <<trades, plan, regime_label, out>>

----------------------------------------------------------------------------
(* Bounds *)

MaxRuns == 2
MaxPrior == 4
MaxTrades == 2
MaxTradesR == 2
MaxTradesSizing == 2
MaxLimits == 2

----------------------------------------------------------------------------
(* Program constants *)

\* price units per 1.00
UnitsPerDollar == 100 * 200

\* 0.0001 in price units (rules.py 161, 166)
RiskEpsilon == 2

\* 0.01 in price units (rules.py 184, 186)
StopTolerance == 200

\* 0.02 in hundredths (agent.py 47)
threshold == 2

\* history[-5:] (agent.py 24)
TrendWindow == 5

----------------------------------------------------------------------------
(* Values *)

NA == 0 - 1
NaN == "NaN"

isna(x) == x = NA

abs(x) == IF x < 0 THEN 0 - x ELSE x

max(x, y) == IF x >= y THEN x ELSE y

\* round(num / den, 2) in hundredths, den > 0: round half to even
round2(num, den) ==
    LET x == 100 * num
        q == x \div den
        r == x % den
    IN  IF 2 * r < den THEN q
        ELSE IF 2 * r > den THEN q + 1
        ELSE IF q % 2 = 0 THEN q ELSE q + 1

Violation(i, t) == [trade_index |-> i, violation_type |-> t]

RECURSIVE Concat(_)
Concat(ss) == IF ss = <<>> THEN <<>> ELSE Head(ss) \o Concat(Tail(ss))

IsPrefix(s, t) == Len(s) <= Len(t) /\ SubSeq(t, 1, Len(s)) = s

SeqsUpTo(S, n) == UNION {[1..k -> S] : k \in 0..n}

----------------------------------------------------------------------------
(* src/src/rules.py *)

\* range(1, len(trades)): the first row is skipped
check_regime_allowed_from_1(trs, allowed_regimes, current_regime) ==
    IF current_regime \notin allowed_regimes
    THEN [k \in 1..(Len(trs) - 1) |-> Violation(k, "Regime Mismatch")]
    ELSE <<>>

\* check_regime_allowed: one "Regime Mismatch" per row when the regime is not
\* in the list
check_regime_allowed(trs, allowed_regimes, current_regime) ==
    IF current_regime \notin allowed_regimes
    THEN [k \in 1..Len(trs) |-> Violation(k - 1, "Regime Mismatch")]
    ELSE <<>>

\* check_missing_stops: one "Missing Stop" per row whose stop_price is NaN
check_missing_stops(trs) ==
    Concat([k \in 1..Len(trs) |->
        IF isna(trs[k].stop_price)
        THEN <<Violation(k - 1, "Missing Stop")>>
        ELSE <<>>])

\* str.startswith
startswith(s, prefix) == IsPrefix(prefix, s)

\* A dict is a sequence of <<key, value>> pairs in insertion order, keys distinct
DictHas(d, key) == \E k \in 1..Len(d) : d[k][1] = key

DictGet(d, key) == d[CHOOSE k \in 1..Len(d) : d[k][1] = key][2]

\* the first entry, in insertion order, whose key is a prefix of the regime
FirstPrefixMatch(d, current_regime) ==
    LET hits == {k \in 1..Len(d) : startswith(current_regime, d[k][1])}
    IN  IF hits = {} THEN NA
        ELSE d[CHOOSE k \in hits : \A j \in hits : k <= j][2]

\* the prefix scan alone, without the exact lookup first
resolve_limit_pct_prefix_only(position_limits_by_regime, current_regime) ==
    FirstPrefixMatch(position_limits_by_regime, current_regime)

\* rules.py 95-102: exact key first, otherwise the first prefix match
resolve_limit_pct(position_limits_by_regime, current_regime) ==
    IF DictHas(position_limits_by_regime, current_regime)
    THEN DictGet(position_limits_by_regime, current_regime)
    ELSE FirstPrefixMatch(position_limits_by_regime, current_regime)

\* position_value > max_value, with max_value = (limit_pct / 100.0) * account_size
\* and position_value = entry * shares; entry is in price units
oversized(row, limit_pct, account_size) ==
    row.entry_price * row.shares * 100 > limit_pct * account_size * UnitsPerDollar

check_oversized_for_regime(trs, account_size, position_limits_by_regime, current_regime) ==
    IF account_size <= 0 THEN <<>>
    ELSE LET limit_pct == resolve_limit_pct(position_limits_by_regime, current_regime)
         IN  IF limit_pct = NA THEN <<>>
             ELSE Concat([k \in 1..Len(trs) |->
                    IF isna(trs[k].entry_price) \/ isna(trs[k].shares) THEN <<>>
                    ELSE IF oversized(trs[k], limit_pct, account_size)
                         THEN <<Violation(k - 1, "Oversized for Regime")>>
                         ELSE <<>>])

\* str.upper on the side values that occur
upper(s) ==
    CASE s = "long" -> "LONG"
      [] s = "short" -> "SHORT"
      [] OTHER -> s

\* rules.py 155-168: the signed risk distance of a row whose side is a string
risk_of(row) ==
    IF upper(row.side) = "SHORT"
    THEN row.stop_price - row.entry_price
    ELSE row.entry_price - row.stop_price

\* rules.py 163, 168: the numerator of r_multiple
profit_of(row) ==
    IF upper(row.side) = "SHORT"
    THEN row.entry_price - row.exit_price
    ELSE row.exit_price - row.entry_price

\* 0 <= r_multiple <= 0.5
early_exit_inclusive(profit, risk) ==
    IF risk > 0
    THEN 0 <= profit /\ 2 * profit <= risk
    ELSE profit <= 0 /\ 2 * profit >= risk

\* rules.py 171: 0 <= r_multiple < 0.5, r_multiple = profit / risk, risk # 0
early_exit(profit, risk) ==
    IF risk > 0
    THEN 0 <= profit /\ 2 * profit < risk
    ELSE profit <= 0 /\ 2 * profit > risk

\* hit_stop alone, without "and abs(risk) > 0.01"
late_exit_any_risk(row, risk) ==
    abs(row.exit_price - row.stop_price) < StopTolerance

\* rules.py 184-186: abs(exit_price - stop_price) < 0.01 and abs(risk) > 0.01
late_exit(row, risk) ==
    abs(row.exit_price - row.stop_price) < StopTolerance /\ abs(risk) > StopTolerance

\* rules.py 143-196, the body of the loop for row k of a table whose side
\* cells are all strings
r_multiple_row(row, i) ==
    IF isna(row.entry_price) \/ isna(row.exit_price) \/ isna(row.stop_price)
    THEN <<>>
    ELSE LET risk == risk_of(row) IN
         IF abs(risk) < RiskEpsilon THEN <<>>
         ELSE (IF early_exit(profit_of(row), risk)
               THEN <<Violation(i, "Early Exit")>> ELSE <<>>)
              \o
              (IF late_exit(row, risk)
               THEN <<Violation(i, "Late Exit")>> ELSE <<>>)

\* rules.py 147: row.get("side", "LONG").upper() on a NaN cell (a float)
\* raises AttributeError, before the NaN prices are looked at
side_raises(row) == row.side = NaN

\* check_r_multiple: the exception raised ("none" when it returns) and the
\* violations returned
check_r_multiple(trs) ==
    IF \E k \in 1..Len(trs) : side_raises(trs[k])
    THEN [exc |-> "AttributeError", violations |-> <<>>]
    ELSE [exc |-> "none",
          violations |-> Concat([k \in 1..Len(trs) |-> r_multiple_row(trs[k], k - 1)])]

----------------------------------------------------------------------------
(* src/src/memory.py *)

Missing == [kind |-> "missing", history |-> <<>>]
Corrupt == [kind |-> "corrupt", history |-> <<>>]
JsonFile(h) == [kind |-> "json", history |-> h]

\* load_memory: the exception raised and where memory["history"] points:
\* DEFAULT_STATE.copy() is a shallow copy, so its "history" is the list of
\* DEFAULT_STATE itself; json.loads builds a list of its own, and raises
\* JSONDecodeError on text that is not JSON
load_memory(content) ==
    CASE content.kind = "missing" ->
            [exc |-> "none", ref |-> "default", own |-> <<>>]
      [] content.kind = "json" ->
            [exc |-> "none", ref |-> "own", own |-> content.history]
      [] OTHER ->
            [exc |-> "JSONDecodeError", ref |-> "none", own |-> <<>>]

\* save_memory: the file at path holds the whole state
\* a save that re-reads the file and appends the newest record to what is there
\* when the file holds records the caller does not
save_memory_merge(st, path, history) ==
    IF st[path].kind = "json" /\ ~IsPrefix(st[path].history, history)
    THEN [st EXCEPT ![path] =
            JsonFile(Append(st[path].history, history[Len(history)]))]
    ELSE [st EXCEPT ![path] = JsonFile(history)]

save_memory(st, path, history) == [st EXCEPT ![path] = JsonFile(history)]

----------------------------------------------------------------------------
(* src/src/agent.py *)

Paths == {"p1", "p2"}

\* the instances, numbered in the order they are constructed
Agents == {1, 2}

NoAgent == [status |-> "none", memory_path |-> "none", ref |-> "none", own |-> <<>>]

\* self.memory["history"] of a constructed agent
History(a) == IF agent[a].ref = "default" THEN DEFAULT_STATE ELSE agent[a].own

Sum(s) == LET RECURSIVE go(_)
              go(k) == IF k = 0 THEN 0 ELSE s[k] + go(k - 1)
          IN  go(Len(s))

LastN(s, n) == SubSeq(s, max(1, Len(s) - n + 1), Len(s))

\* _calculate_compliance_trend on the given history
calculate_compliance_trend(history) ==
    IF Len(history) < 2 THEN "flat"
    ELSE LET scores == [k \in 1..Len(LastN(history, TrendWindow)) |->
                            LastN(history, TrendWindow)[k].compliance_score]
             mid_point == Len(scores) \div 2
             first_half == IF Len(scores) >= 4 THEN SubSeq(scores, 1, mid_point)
                           ELSE SubSeq(scores, 1, 1)
             second_half == IF Len(scores) >= 4
                            THEN SubSeq(scores, mid_point + 1, Len(scores))
                            ELSE SubSeq(scores, Len(scores), Len(scores))
             n1 == Len(first_half)
             n2 == Len(second_half)
         IN  \* avg_second > avg_first + threshold, times n1 * n2
             IF Sum(second_half) * n1 > Sum(first_half) * n2 + threshold * n1 * n2
             THEN "improving"
             ELSE IF Sum(second_half) * n1 < Sum(first_half) * n2 - threshold * n1 * n2
             THEN "worsening"
             ELSE "flat"

\* plan.get("allowed_regimes", [])
plan_allowed_regimes_get(pl) ==
    [exc |-> "none", value |-> IF pl.has_allowed_regimes THEN pl.allowed_regimes ELSE {}]

\* plan["allowed_regimes"]: KeyError when the key is absent
plan_allowed_regimes(pl) ==
    IF pl.has_allowed_regimes
    THEN [exc |-> "none", value |-> pl.allowed_regimes]
    ELSE [exc |-> "KeyError", value |-> {}]

\* float(plan.get("account_size", 0) or 0)
plan_account_size(pl) == IF isna(pl.account_size) THEN 0 ELSE pl.account_size

\* without the max(0.0, ...) floor
compliance_score_unclamped(n_violations, n_trades) ==
    round2(max(n_trades, 1) - n_violations, max(n_trades, 1))

\* agent.py 89-90, in hundredths
compliance_score_of(n_violations, n_trades) ==
    max(0, round2(max(n_trades, 1) - n_violations, max(n_trades, 1)))

\* agent.py 92-95 and 117, in hundredths
regime_mismatch_rate_of(violations, n_trades) ==
    round2(Cardinality({k \in 1..Len(violations) :
                violations[k].violation_type = "Regime Mismatch"}),
           max(n_trades, 1))

\* agent.py 97-101
violation_summary_of(violations) ==
    [t \in {violations[k].violation_type : k \in 1..Len(violations)} |->
        Cardinality({k \in 1..Len(violations) : violations[k].violation_type = t})]

\* agent.py 63-87: the checks in order; the first exception ends the call
run_checks(trs, pl, label) ==
    LET allowed == plan_allowed_regimes(pl)
        rm == check_r_multiple(trs)
    IN  IF allowed.exc # "none" THEN [exc |-> allowed.exc, violations |-> <<>>]
        ELSE IF rm.exc # "none" THEN [exc |-> rm.exc, violations |-> <<>>]
        ELSE [exc |-> "none",
              violations |->
                  check_regime_allowed(trs, allowed.value, label)
                  \o (IF pl.stop_required THEN check_missing_stops(trs) ELSE <<>>)
                  \o check_oversized_for_regime(trs, plan_account_size(pl),
                         pl.position_limits_by_regime, label)
                  \o rm.violations]

\* agent.py 104-108: the Run Record of a run
run_record(violations, score) ==
    [compliance_score |-> score,
     violations |-> violations,
     violation_summary |-> violation_summary_of(violations)]

\* keeps a window of the newest records only
history_append_windowed(history, record) ==
    Append(LastN(history, TrendWindow - 1), record)

\* agent.py 104: self.memory["history"].append(...)
history_append(history, record) == Append(history, record)

\* the trend computed before the append
memory_before_append(history_before, history_after) == history_before

\* agent.py 103-112: the trend is computed after the append and the save
memory_at_trend(history_before, history_after) == history_after

Call(trs, pl, label) == [trades |-> trs, plan |-> pl, regime_label |-> label]

NoPlan ==
    [has_allowed_regimes |-> FALSE, allowed_regimes |-> {}, stop_required |-> FALSE,
     account_size |-> NA, position_limits_by_regime |-> <<>>]

NoCall == Call(<<>>, NoPlan, <<>>)

\* ExecutionDisciplineAgent(memory_path)
Construct(a, path) ==
    /\ agent[a].status = "none"
    /\ \A b \in Agents : b < a => agent[b].status # "none"
    /\ LET m == load_memory(store[path]) IN
        /\ agent' = [agent EXCEPT ![a] =
                        IF m.exc = "none"
                        THEN [status |-> "ready", memory_path |-> path,
                              ref |-> m.ref, own |-> m.own]
                        ELSE [status |-> "failed", memory_path |-> path,
                              ref |-> "none", own |-> <<>>]]
        /\ result' = [op |-> "init", agent |-> a, exc |-> m.exc,
                      call |-> NoCall, report |-> <<>>]
    /\ UNCHANGED <<store, DEFAULT_STATE, calls_left, pureVars>>

\* ExecutionDisciplineAgent.run(trades, plan, regime_label)
run(a, trs, pl, label) ==
    /\ agent[a].status = "ready"
    /\ calls_left > 0
    /\ calls_left' = calls_left - 1
    /\ LET checks == run_checks(trs, pl, label) IN
        IF checks.exc # "none"
        THEN /\ result' = [op |-> "run", agent |-> a, exc |-> checks.exc,
                           call |-> Call(trs, pl, label), report |-> <<>>]
             /\ UNCHANGED <<store, DEFAULT_STATE, agent>>
        ELSE LET violations == checks.violations
                 score == compliance_score_of(Len(violations), Len(trs))
                 history == history_append(History(a), run_record(violations, score))
             IN  /\ IF agent[a].ref = "default"
                    THEN DEFAULT_STATE' = history /\ agent' = agent
                    ELSE agent' = [agent EXCEPT ![a].own = history]
                         /\ DEFAULT_STATE' = DEFAULT_STATE
                 /\ store' = save_memory(store, agent[a].memory_path, history)
                 /\ result' =
                      [op |-> "run", agent |-> a, exc |-> "none",
                       call |-> Call(trs, pl, label),
                       report |-> <<[compliance_score |-> score,
                                     violations |-> violations,
                                     regime_mismatch_rate |->
                                         regime_mismatch_rate_of(violations, Len(trs)),
                                     violation_summary |->
                                         violation_summary_of(violations),
                                     compliance_trend |->
                                         calculate_compliance_trend(
                                             memory_at_trend(History(a), history))]>>]
    /\ UNCHANGED pureVars

----------------------------------------------------------------------------
(* Inputs *)

Row(side, entry, exit, shares, stop) ==
    [side |-> side, entry_price |-> entry, exit_price |-> exit,
     shares |-> shares, stop_price |-> stop]

Plan(has, allowed, stop_required, account_size, limits) ==
    [has_allowed_regimes |-> has, allowed_regimes |-> allowed,
     stop_required |-> stop_required, account_size |-> account_size,
     position_limits_by_regime |-> limits]

\* regime labels, one character per word
Risk == <<"R">>
RiskOn == <<"R", "n">>
RiskOff == <<"R", "f">>
RiskOffHighVol == <<"R", "f", "H">>

\* entry at 1.00, a risk distance of 0.10
E == UnitsPerDollar
D == UnitsPerDollar \div 10

T_ok == Row("LONG", E, E + D, 10, E - D)
T_nostop == Row("LONG", E, E + D, 10, NA)
T_noside == Row(NaN, E, E + D, 10, E - D)
T_early == Row("short", E, E, 10, E + D)

\* Run Records of earlier processes: a clean run, and a run of 25 trades
\* with one missing stop (1 - 1/25 = 0.96)
PriorRecords ==
    {run_record(<<>>, 100),
     run_record(<<Violation(0, "Missing Stop")>>, 96)}

Contents ==
    {Missing, Corrupt} \cup {JsonFile(h) : h \in SeqsUpTo(PriorRecords, MaxPrior)}

MainLogs == {<<>>, <<T_ok, T_nostop>>, <<T_noside>>}
MainPlans ==
    {Plan(FALSE, {}, TRUE, NA, <<>>),
     Plan(TRUE, {RiskOn}, TRUE, NA, <<>>)}
MainRegimes == {RiskOn, RiskOff}

ReportRows == {T_ok, T_nostop, T_noside, T_early}
ReportLogs == SeqsUpTo(ReportRows, MaxTrades)
ReportSizing == {<<NA, <<>>>>, <<100, <<<<Risk, 5>>>>>>}
ReportPlans ==
    {Plan(FALSE, {}, sr, sz[1], sz[2]) : sr \in BOOLEAN, sz \in ReportSizing}
    \cup {Plan(TRUE, allowed, sr, sz[1], sz[2]) :
             allowed \in {{}, {RiskOn}}, sr \in BOOLEAN, sz \in ReportSizing}
ReportRegimes == {RiskOn, RiskOff}

----------------------------------------------------------------------------
(* The orchestrator and its store *)

NoResult == [op |-> "none", agent |-> 0, exc |-> "none",
             call |-> NoCall, report |-> <<>>]
NoOut == [fn |-> "none", exc |-> "none", violations |-> <<>>]

PureIdle ==
    /\ trades = <<>>
    /\ plan = NoPlan
    /\ regime_label = <<>>
    /\ out = NoOut

OrchIdle ==
    /\ store = [p \in Paths |-> Missing]
    /\ DEFAULT_STATE = <<>>
    /\ agent = [a \in Agents |-> NoAgent]
    /\ result = NoResult

\* the file at p1 is missing, corrupt or left by earlier processes; there is
\* no file at p2
Init ==
    /\ \E c \in Contents :
          store = [q \in Paths |-> IF q = "p1" THEN c ELSE Missing]
    /\ DEFAULT_STATE = <<>>
    /\ agent = [a \in Agents |-> NoAgent]
    /\ calls_left = MaxRuns
    /\ result = NoResult
    /\ PureIdle

Next ==
    \/ \E a \in Agents, p \in Paths : Construct(a, p)
    \/ \E a \in Agents, trs \in MainLogs, pl \in MainPlans, label \in MainRegimes :
          run(a, trs, pl, label)

Spec == Init /\ [][Next]_vars

\* one run() on a fresh store, over every trade table, plan and regime
InitReport ==
    /\ OrchIdle
    /\ calls_left = 1
    /\ PureIdle

NextReport ==
    \/ \E a \in Agents, p \in Paths : Construct(a, p)
    \/ \E a \in Agents, trs \in ReportLogs, pl \in ReportPlans, label \in ReportRegimes :
          run(a, trs, pl, label)

SpecReport == InitReport /\ [][NextReport]_vars

----------------------------------------------------------------------------
(* check_r_multiple on its own *)

RSides == {"LONG", "short"}
RStops == {E - D, E - 1, E, E + D}
RExits == {E - D, E - D \div 2, E - D \div 2 + 1, E, E + D \div 2 - 1, E + D \div 2, E + D}

\* rows around the stop tolerance: a risk distance just under and just over
\* 0.01, on either side of the entry, exited at or next to the entry
RNearStopRows ==
    {Row(sd, E, E + dx, 10, E + ds) :
        sd \in RSides,
        dx \in {0 - 2, 0, 2},
        ds \in {0 - StopTolerance - 1, 0 - StopTolerance + 1,
                StopTolerance - 1, StopTolerance + 1}}

RRows ==
    {Row(sd, E, ex, 10, st) : sd \in RSides, ex \in RExits, st \in RStops}
    \cup {T_noside, T_nostop, Row("LONG", NA, E + D, 10, E - D),
          Row("LONG", E, NA, 10, E - D)}
    \cup RNearStopRows

InitRMultiple ==
    /\ OrchIdle
    /\ calls_left = 0
    /\ trades \in SeqsUpTo(RRows, MaxTradesR)
    /\ plan = NoPlan
    /\ regime_label = <<>>
    /\ out = NoOut

ApplyCheckRMultiple ==
    /\ out.fn = "none"
    /\ out' = [fn |-> "check_r_multiple",
               exc |-> check_r_multiple(trades).exc,
               violations |-> check_r_multiple(trades).violations]
    /\ UNCHANGED <<orchVars, trades, plan, regime_label>>

NextRMultiple == ApplyCheckRMultiple

SpecRMultiple == InitRMultiple /\ [][NextRMultiple]_vars

----------------------------------------------------------------------------
(* check_oversized_for_regime on its own, called as run() calls it *)

SizingRows ==
    {Row("LONG", NA, E + D, 10, E - D)}
    \cup {Row("LONG", E, E + D, sh, E - D) : sh \in {NA, 5, 10, 11}}

SizingKeys == {Risk, RiskOff, RiskOn}
SizingRegimes == {RiskOff, RiskOffHighVol, RiskOn}

\* dicts of at most MaxLimits entries, keys distinct, limits of 0%, 5% and 10%
SizingDicts ==
    {d \in SeqsUpTo(SizingKeys \X {0, 5, 10}, MaxLimits) :
        \A j, k \in 1..Len(d) : j # k => d[j][1] # d[k][1]}

InitSizing ==
    /\ OrchIdle
    /\ calls_left = 0
    /\ trades \in SeqsUpTo(SizingRows, MaxTradesSizing)
    /\ \E acct \in {NA, 0 - 100, 0, 100}, d \in SizingDicts :
          plan = Plan(TRUE, {RiskOn}, FALSE, acct, d)
    /\ regime_label \in SizingRegimes
    /\ out = NoOut

ApplyCheckOversized ==
    /\ out.fn = "none"
    /\ out' = [fn |-> "check_oversized_for_regime",
               exc |-> "none",
               violations |->
                   check_oversized_for_regime(trades, plan_account_size(plan),
                       plan.position_limits_by_regime, regime_label)]
    /\ UNCHANGED <<orchVars, trades, plan, regime_label>>

NextSizing == ApplyCheckOversized

SpecSizing == InitSizing /\ [][NextSizing]_vars

----------------------------------------------------------------------------
(* Claims about the orchestrator and its store *)

RunStep == calls_left' # calls_left

Succeeded == result.op = "run" /\ result.exc = "none"

Scores(h) == [k \in 1..Len(h) |-> h[k].compliance_score]

\* C1: on one instance the history is append-only, in memory and as saved:
\* every record present before a step is present, unchanged and at the same
\* position after it, a successful run() adds exactly one record at the end,
\* the record of that run, and the file then holds exactly that history.
C1_AppendOnly ==
    [][\A a \in Agents :
          agent[a].status = "ready" =>
            /\ agent[a]'.status = "ready"
            /\ IsPrefix(History(a), History(a)')
            /\ (RunStep /\ result'.agent = a /\ result'.exc = "none") =>
                  /\ Len(History(a)') = Len(History(a)) + 1
                  /\ History(a)'[Len(History(a)')] =
                        run_record(result'.report[1].violations,
                                   result'.report[1].compliance_score)
                  /\ store'[agent[a].memory_path] = JsonFile(History(a)')
            /\ (RunStep /\ result'.agent = a /\ result'.exc # "none") =>
                  History(a)' = History(a)]_vars

\* C1 witness: a successful run() on an instance whose history already held
\* more records than the trend window
C1_Witness ==
    /\ Succeeded
    /\ Len(History(result.agent)) > TrendWindow
    /\ store[agent[result.agent].memory_path] = JsonFile(History(result.agent))

\* C2 (as claimed): an instance constructed on a path with no file starts with
\* an empty history, and a run() on one instance leaves the history of an
\* instance bound to another path unchanged.
C2_FreshAndIsolated ==
    [][/\ \A a \in Agents :
            (/\ agent[a].status = "none"
             /\ agent[a]'.status = "ready"
             /\ store[agent[a]'.memory_path].kind = "missing")
            => History(a)' = <<>>
       /\ \A a, b \in Agents :
            (/\ RunStep
             /\ result'.agent = a
             /\ agent[b].status = "ready"
             /\ agent[b].memory_path # agent[a].memory_path)
            => History(b)' = History(b)]_vars

\* C3 (as claimed): the constructor's load never raises, and on a file that
\* cannot be parsed the instance is constructed with an empty history.
C3_LoadNeverRaises ==
    result.op = "init" =>
        /\ result.exc = "none"
        /\ store[agent[result.agent].memory_path].kind = "corrupt" =>
              /\ agent[result.agent].status = "ready"
              /\ History(result.agent) = <<>>

\* C4: a run() whose plan has no allowed_regimes ends in an error raised to
\* the caller, returns no report, and leaves every history and every file as
\* it was.
C4_MissingAllowedRegimesAborts ==
    [][(RunStep /\ ~result'.call.plan.has_allowed_regimes) =>
          /\ result'.exc = "KeyError"
          /\ result'.report = <<>>
          /\ UNCHANGED <<store, DEFAULT_STATE, agent>>]_vars

\* C4 witness: a run() on an instance with records ended in the KeyError
C4_Witness ==
    /\ result.op = "run"
    /\ result.exc = "KeyError"
    /\ ~result.call.plan.has_allowed_regimes
    /\ History(result.agent) # <<>>

\* the classification of the claim, on a sequence of scores
ClaimTrend(s) ==
    IF Len(s) < 2 THEN "flat"
    ELSE LET first == IF Len(s) >= 4 THEN SubSeq(s, 1, Len(s) \div 2) ELSE <<s[1]>>
             second == IF Len(s) >= 4 THEN SubSeq(s, Len(s) \div 2 + 1, Len(s))
                       ELSE <<s[Len(s)]>>
             \* the two means, over the common denominator
             m1 == Sum(first) * Len(second)
             m2 == Sum(second) * Len(first)
             t == 2 * Len(first) * Len(second)
         IN  CASE m2 > m1 + t -> "improving"
               [] m2 < m1 - t -> "worsening"
               [] OTHER -> "flat"

\* C5: the trend a run() returns is the classification of the last up to 5
\* scores of the history that holds, and has saved, the run's own record as
\* its last entry.
C5_TrendOfUpdatedHistory ==
    Succeeded =>
        LET h == History(result.agent)
            s == Scores(LastN(h, 5))
        IN  /\ h # <<>>
            /\ h[Len(h)].compliance_score = result.report[1].compliance_score
            /\ store[agent[result.agent].memory_path] = JsonFile(h)
            /\ s[Len(s)] = result.report[1].compliance_score
            /\ result.report[1].compliance_trend = ClaimTrend(s)

\* C5 witness: a run() on a history of more than 5 records whose sixth newest
\* record would have changed the trend
C5_Witness ==
    /\ Succeeded
    /\ Len(History(result.agent)) > 5
    /\ result.report[1].compliance_trend
          # ClaimTrend(Scores(LastN(History(result.agent), 6)))

\* the file at path p holds a record that the history h does not
HoldsMore(p, h) ==
    store[p].kind = "json" /\ ~IsPrefix(store[p].history, h)

\* C12: the store has no locking or version check: a successful run() writes
\* the instance's own history over the file whatever the file holds, so when
\* another instance bound to the same path has saved a record in between, the
\* file after the save is one record longer than the instance's own view and
\* no longer starts with what it held: the other instance's record is gone.
C12_StaleSaveOverwrites ==
    [][\A a \in Agents :
          (RunStep /\ result'.agent = a /\ result'.exc = "none") =>
            LET p == agent[a].memory_path IN
              /\ store'[p].kind = "json"
              /\ store'[p].history = History(a)'
              /\ Len(store'[p].history) = Len(History(a)) + 1
              /\ HoldsMore(p, History(a)') =>
                    ~IsPrefix(store[p].history, store'[p].history)]_vars

\* C12 witness: two instances constructed on the same file, each then made
\* one successful run(); the file holds the history of the last one to save
\* and the record of the other instance's run is nowhere in it
C12_Witness ==
    /\ Succeeded
    /\ calls_left = MaxRuns - 2
    /\ \E b \in Agents \ {result.agent} :
          LET a == result.agent
              p == agent[a].memory_path
              n == Len(History(b))
          IN  /\ agent[b].status = "ready"
              /\ agent[b].memory_path = p
              /\ agent[a].ref = "own" /\ agent[b].ref = "own"
              /\ store[p] = JsonFile(History(a))
              /\ n = Len(History(a))
              /\ SubSeq(History(b), 1, n - 1) = SubSeq(History(a), 1, n - 1)
              /\ \A k \in 1..Len(store[p].history) :
                    store[p].history[k] # History(b)[n]

----------------------------------------------------------------------------
(* Claims about the report *)

Count(vs, t) == Cardinality({k \in 1..Len(vs) : vs[k].violation_type = t})

CountAt(vs, t, i) ==
    Cardinality({k \in 1..Len(vs) : vs[k] = Violation(i, t)})

\* C6: the compliance_score and the regime_mismatch_rate of every report
\* lie in [0.0, 1.0], and so does the compliance_score of every Run Record
\* of every history, in memory and on file.
C6_ScoreAndRateInRange ==
    /\ Succeeded =>
          /\ result.report[1].compliance_score \in 0..100
          /\ result.report[1].regime_mismatch_rate \in 0..100
    /\ \A a \in Agents : \A k \in 1..Len(History(a)) :
          History(a)[k].compliance_score \in 0..100
    /\ \A p \in Paths : \A k \in 1..Len(store[p].history) :
          store[p].history[k].compliance_score \in 0..100

\* C6 witness: a report over a table with more violations than rows
C6_Witness ==
    /\ Succeeded
    /\ Len(result.call.trades) > 0
    /\ Len(result.report[1].violations) > Len(result.call.trades)
    /\ result.report[1].compliance_score = 0
    /\ History(result.agent)[1].compliance_score = 0

\* C7: when the regime label is not in allowed_regimes every row index
\* appears in exactly one "Regime Mismatch" violation and the rate is 1.0
\* for a table with rows; when it is in allowed_regimes there is no
\* "Regime Mismatch" violation.
C7_RegimeGate ==
    Succeeded =>
        LET vs == result.report[1].violations
            n == Len(result.call.trades)
        IN  IF result.call.regime_label \notin result.call.plan.allowed_regimes
            THEN /\ \A i \in 0..(n - 1) : CountAt(vs, "Regime Mismatch", i) = 1
                 /\ Count(vs, "Regime Mismatch") = n
                 /\ n > 0 => result.report[1].regime_mismatch_rate = 100
            ELSE Count(vs, "Regime Mismatch") = 0

\* C7 witness: a report over two or more rows in a regime that is not allowed
C7_Witness ==
    /\ Succeeded
    /\ result.call.regime_label \notin result.call.plan.allowed_regimes
    /\ Len(result.call.trades) >= 2
    /\ result.report[1].regime_mismatch_rate = 100

----------------------------------------------------------------------------
(* Claims about check_r_multiple *)

RReturned == out.fn = "check_r_multiple" /\ out.exc = "none"

PricesPresent(row) ==
    ~isna(row.entry_price) /\ ~isna(row.exit_price) /\ ~isna(row.stop_price)

\* the claim's p and d for a row
ClaimP(row) ==
    IF upper(row.side) = "SHORT" THEN row.entry_price - row.exit_price
    ELSE row.exit_price - row.entry_price

ClaimD(row) == abs(row.entry_price - row.stop_price)

\* the signed risk distance: entry - stop for LONG, stop - entry for SHORT
SignedRisk(row) ==
    IF upper(row.side) = "SHORT" THEN row.stop_price - row.entry_price
    ELSE row.entry_price - row.stop_price

\* C8 (as claimed): check_r_multiple never raises, whatever cells are absent,
\* and emits no violation for a row with |risk| < 0.0001.
C8_RMultipleNeverRaises ==
    out.fn = "check_r_multiple" =>
        /\ out.exc = "none"
        /\ \A k \in 1..Len(trades) :
              (PricesPresent(trades[k]) /\ ClaimD(trades[k]) < RiskEpsilon) =>
                 \A j \in 1..Len(out.violations) :
                    out.violations[j].trade_index # k - 1

\* C9 (as claimed): a row with the three prices present and a non-degenerate
\* risk distance is flagged "Early Exit" exactly when 0 <= p < 0.5 * d, with
\* d = |entry - stop|.
C9_EarlyExitByDistance ==
    RReturned =>
        \A k \in 1..Len(trades) :
            (PricesPresent(trades[k]) /\ ClaimD(trades[k]) >= RiskEpsilon) =>
                (CountAt(out.violations, "Early Exit", k - 1) > 0
                 <=> (0 <= ClaimP(trades[k]) /\ 2 * ClaimP(trades[k]) < ClaimD(trades[k])))

\* C9 (amended): such a row is flagged "Early Exit", once, exactly when
\* 0 <= p / r < 0.5 for the signed risk distance r: 0 <= p < 0.5 * d when the
\* stop is on the protective side (r > 0), and -0.5 * d < p <= 0 when it is
\* on the other side (r < 0); no other row is flagged.
C9_EarlyExitBySignedRisk ==
    RReturned =>
        \A k \in 1..Len(trades) :
            LET row == trades[k]
                p == ClaimP(row)
                d == ClaimD(row)
                flagged == CountAt(out.violations, "Early Exit", k - 1)
            IN  IF PricesPresent(row) /\ d >= RiskEpsilon
                THEN /\ flagged \in {0, 1}
                     /\ flagged = 1 <=>
                           \/ SignedRisk(row) > 0 /\ 0 <= p /\ 2 * p < d
                           \/ SignedRisk(row) < 0 /\ p <= 0 /\ 0 - d < 2 * p
                ELSE flagged = 0

\* C9 witness: a LONG row with its stop above the entry, exited at a loss,
\* is flagged "Early Exit"
C9_Witness ==
    /\ RReturned
    /\ \E k \in 1..Len(trades) :
          /\ trades[k].side = "LONG"
          /\ PricesPresent(trades[k])
          /\ trades[k].stop_price > trades[k].entry_price
          /\ trades[k].exit_price < trades[k].entry_price
          /\ CountAt(out.violations, "Early Exit", k - 1) = 1

BothFlags(vs, i) ==
    CountAt(vs, "Early Exit", i) > 0 /\ CountAt(vs, "Late Exit", i) > 0

\* the case the claim names: all three prices present, the exit within 0.01
\* of the stop, |risk| > 0.01, and an R-multiple of magnitude under 0.5
NearZeroRAtStop(row) ==
    /\ PricesPresent(row)
    /\ row.side # NaN
    /\ abs(row.exit_price - row.stop_price) < StopTolerance
    /\ abs(risk_of(row)) > StopTolerance
    /\ 2 * abs(profit_of(row)) < abs(risk_of(row))

\* C11 (as claimed): the flags are not mutually exclusive: a near-zero-R exit
\* that lands within 0.01 of the stop, with |risk| > 0.01, gets both an
\* "Early Exit" and a "Late Exit" violation from check_r_multiple.
C11_BothFlagsAtStop ==
    RReturned =>
        \A k \in 1..Len(trades) :
            NearZeroRAtStop(trades[k]) => BothFlags(out.violations, k - 1)

\* C11 (amended): the two flags are mutually exclusive: check_r_multiple
\* never emits an "Early Exit" and a "Late Exit" violation for the same
\* trade, and emits each at most once per trade.
C11_FlagsExclusive ==
    RReturned =>
        \A k \in 1..Len(trades) :
            /\ ~BothFlags(out.violations, k - 1)
            /\ CountAt(out.violations, "Early Exit", k - 1) \in {0, 1}
            /\ CountAt(out.violations, "Late Exit", k - 1) \in {0, 1}

\* C11 witness: a table with an exit at 0R whose stop is just over 0.01 away
\* (flagged "Early Exit" only) and an exit just short of the entry, within
\* 0.01 of that stop (flagged "Late Exit" only)
C11_Witness ==
    /\ RReturned
    /\ trades = <<Row("LONG", E, E, 10, E - StopTolerance - 1),
                  Row("LONG", E, E - 2, 10, E - StopTolerance - 1)>>
    /\ NearZeroRAtStop(trades[2])
    /\ out.violations = <<Violation(0, "Early Exit"), Violation(1, "Late Exit")>>

----------------------------------------------------------------------------
(* Claims about check_oversized_for_regime *)

\* the limit of the claim: the value at the exact key if there is one,
\* otherwise the value of the first entry whose key is a prefix of the label
ClaimLimit(d, label) ==
    LET exact == {k \in 1..Len(d) : d[k][1] = label}
        prefixed == {k \in 1..Len(d) :
                        /\ Len(d[k][1]) <= Len(label)
                        /\ \A c \in 1..Len(d[k][1]) : d[k][1][c] = label[c]}
    IN  IF exact # {} THEN <<d[CHOOSE k \in exact : TRUE][2]>>
        ELSE IF prefixed # {}
        THEN <<d[CHOOSE k \in prefixed : \A j \in prefixed : k <= j][2]>>
        ELSE <<>>

\* C10: row i gets an "Oversized for Regime" violation, once, exactly when
\* account_size > 0, a limit resolves, entry_price and shares are present
\* and entry_price * shares > (limit_pct / 100) * account_size; there is no
\* violation at all when account_size is 0 or absent or no limit resolves.
C10_OversizedIff ==
    out.fn = "check_oversized_for_regime" =>
        LET limit == ClaimLimit(plan.position_limits_by_regime, regime_label)
            positive == ~isna(plan.account_size) /\ plan.account_size > 0
        IN  /\ \A k \in 1..Len(trades) :
                  /\ CountAt(out.violations, "Oversized for Regime", k - 1) \in {0, 1}
                  /\ CountAt(out.violations, "Oversized for Regime", k - 1) = 1 <=>
                        /\ positive
                        /\ limit # <<>>
                        /\ ~isna(trades[k].entry_price)
                        /\ ~isna(trades[k].shares)
                        /\ trades[k].entry_price * trades[k].shares * 100
                              > limit[1] * plan.account_size * UnitsPerDollar
            /\ Len(out.violations) = Count(out.violations, "Oversized for Regime")
            /\ (~positive \/ limit = <<>>) => out.violations = <<>>

\* C10 witness: no exact key, the limit of the first prefix key applies and
\* the row over it is flagged, the row at it is not
C10_Witness ==
    /\ out.fn = "check_oversized_for_regime"
    /\ plan.account_size = 100
    /\ plan.position_limits_by_regime = <<<<RiskOn, 5>>, <<RiskOff, 10>>>>
    /\ regime_label = RiskOffHighVol
    /\ Len(trades) = 2
    /\ trades[1].entry_price = E /\ trades[1].shares = 10
    /\ trades[2].entry_price = E /\ trades[2].shares = 11
    /\ out.violations = <<Violation(1, "Oversized for Regime")>>

====
